---- MODULE Spec2Model ----
(***************************************************************************)
(* Model of the client-side session manager and profile resolver           *)
(* (AuthContext.tsx), of the per-kind entity caches with their point       *)
(* lookups and scoped queries (propertyService / reservationService /      *)
(* transactionService), and of the role check and date-only conversions    *)
(* of the property-rental dashboard.                                       *)
(*                                                                         *)
(* JavaScript null is modelled by a distinguished value of the same shape  *)
(* as the non-null values (NoSession, NoProfile, NoSubject, NoRow).        *)
(***************************************************************************)
EXTENDS Integers, Sequences, FiniteSets, TLC

\* ------------------------------------------------------------------ bounds
MaxTok      == 2    \* token generations a provider session goes through
MaxQueue    == 1    \* provider events emitted and not yet delivered
MaxInflight == 2    \* profile resolutions in flight at once
MaxPulls    == 1    \* visibility-triggered session pulls in flight at once
MaxStore    == 2    \* records in the remote collection of the entity kind
MaxId       == 1    \* records ever created in the remote collection
MaxGets     == 1    \* list fetches in flight at once
MaxWrites   == 1    \* create/update/delete calls in flight at once
MaxReads    == 1    \* point lookups and scoped queries in flight at once
MaxNow      == 30000 \* last clock value (ms)
MaxDay      == 63   \* days of the calendar after EpochDate
TickStep    == 15000 \* granularity of the clock (ms)

\* ------------------------------------------------------------- value sets
Subjects  == {"A", "B"}
NoSubject == "none"
NoRow     == "norow"
Roles     == {"admin", "manager", "viewer"}

NoSession == [sub |-> NoSubject, tok |-> 0]
Sessions  == [sub : Subjects, tok : 1..MaxTok]

NoProfile == [id |-> NoSubject, role |-> "none"]

\* error.message of a rejected signInWithPassword
ProviderMessages == {"Invalid login credentials", "Email not confirmed"}

\* a promise that resolved (no error thrown to the caller)
Resolved == "resolved"

NoReturn == [op |-> "none", error |-> Resolved]

\* no answer of the store yet
NoResolved == [sub |-> NoSubject, outcome |-> "none", before |-> NoSubject,
               bit |-> 0]

\* A getSession() call in flight: the session the provider held when the call
\* was issued (res) and whether the call will succeed (ok); a failing call
\* returns no session at all.
Pull(k, s, ok) == [kind |-> k, res |-> IF ok THEN s ELSE NoSession, ok |-> ok]

RemoveAt(s, i) == SubSeq(s, 1, i - 1) \o SubSeq(s, i + 1, Len(s))

VARIABLES
    \* ---- AuthProvider (React state and refs)
    currentUser,        \* useState: id of the mirrored provider user
    session,            \* useState: mirrored provider session
    userData,           \* useState: cached profile
    loading,            \* useState
    currentUserIdRef,   \* useRef: cached subject id
    userDataRef,        \* useRef: cached profile
    \* ---- environment of the AuthProvider
    provSession,        \* the provider's current session
    events,             \* provider events emitted, not yet delivered
    users,              \* remote table public.users: its rows, [id, role]
    pulls,              \* getSession() calls in flight, with what each will return
    resolves,           \* fetchOrCreateUserData calls in flight
    logoutPc,           \* position of logout(): "idle", or how signOut() settled
    authRet,            \* how the last login() / logout() call settled
    resolved,           \* the last answer fetchOrCreateUserData got from the store
    \* ---- entity cache of one service module
    kind,               \* which service module: fixed in a behaviour
    entityCache,        \* propertiesCache / reservationsCache / transactionsCache
    cacheTimestamp,     \* cacheTimestamp
    \* ---- environment of the service module
    now,                \* Date.now()
    store,              \* remote collection, in the order of the list query
    nextId,             \* next document id the store generates
    gets,               \* list fetches (getDocs) in flight, with their snapshot
    writes,             \* addDoc / updateDoc / deleteDoc calls in flight
    ret,                \* what the last returned call gave its caller
    written,            \* a write has succeeded and no get() was called since
    created,            \* ids created by the last successful write, until the next get()
    reads,              \* point lookups and scoped queries in flight, with their result
    \* ---- role check and date-only fields
    permitted,          \* last hasPermission call: required role and result
    tz,                 \* offset of the local timezone, hours east of UTC
    dateField,          \* the date-only field converted
    calendarDate,       \* the calendar date the field stands for
    wire,               \* its wire text, a sequence of characters (<<>>: none)
    inMemory            \* its Date in the entity, <<instant>> (<<>>: none)

authVars == <<currentUser, session, userData, loading,
              currentUserIdRef, userDataRef, provSession, events, users,
              pulls, resolves, logoutPc, authRet, resolved>>

cacheVars == <<kind, entityCache, cacheTimestamp, now, store, nextId, gets,
               writes, ret, written, created, reads>>

utilVars == <<permitted, tz, dateField, calendarDate, wire, inMemory>>

vars == <<authVars, cacheVars, utilVars>>

\* ---------------------------------------------------------------- helpers

\* The effect-local flag `isMounted`.  The model covers the lifetime of the
\* mounted provider: after the effect's cleanup every continuation returns
\* at its `isMounted` test without touching the state.
isMounted == TRUE

\* The rows of public.users when the provider mounts: subject B has a profile
\* row, subject A has none yet.
InitialUsers == <<[id |-> "B", role |-> "admin"]>>

\* .from("users").select("*").eq("id", s).single(): the role of the row of
\* that id, or NoRow (PGRST116) when the rows of that id are not exactly one
single(table, s) ==
    LET rows == {j \in 1..Len(table) : table[j].id = s} IN
    IF Cardinality(rows) = 1 THEN table[CHOOSE j \in rows : TRUE].role
    ELSE NoRow

selectSingle(s) == single(users, s)

\* mapUserData: wire row -> Profile
mapUserData(sub, role) == [id |-> sub, role |-> role]

\* roleHierarchy of hasPermission
roleHierarchy == [admin |-> 3, manager |-> 2, viewer |-> 1]

\* variant: the comparison is strict
hasPermissionStrict(requiredRole) ==
    IF userData = NoProfile THEN FALSE
    ELSE roleHierarchy[userData.role] > roleHierarchy[requiredRole]

hasPermission(requiredRole) ==
    IF userData = NoProfile THEN FALSE
    ELSE roleHierarchy[userData.role] >= roleHierarchy[requiredRole]

\* ------------------------------------------------------------------- Init

AuthInit ==
    /\ currentUser = NoSubject
    /\ session = NoSession
    /\ userData = NoProfile
    /\ loading = TRUE
    /\ currentUserIdRef = NoSubject
    /\ userDataRef = NoProfile
    /\ provSession \in {NoSession} \cup [sub : Subjects, tok : {1}]
    /\ events = <<[kind |-> "INITIAL_SESSION", session |-> provSession]>>
    /\ users = InitialUsers
    /\ pulls \in {<<Pull("init", provSession, ok)>> : ok \in BOOLEAN}
    /\ resolves = <<>>
    /\ logoutPc = "idle"
    /\ authRet = NoReturn
    /\ resolved = NoResolved

\* ----------------------------------------------------- handleSessionChange

\* variant: the test for a cached profile is dropped
sameUserOnly(nextSession) ==
    currentUserIdRef = nextSession.sub

\* variant: the session objects are compared instead of the user ids
sameSessionCached(nextSession) ==
    /\ session = nextSession
    /\ userDataRef # NoProfile

\* line 189-191: same user and a profile already cached
sameUserCached(nextSession) ==
    /\ currentUserIdRef = nextSession.sub
    /\ userDataRef # NoProfile

\* variant: the cached subject id is not reset
clearProfileKeepsId ==
    /\ UNCHANGED currentUserIdRef
    /\ userDataRef' = NoProfile
    /\ userData' = NoProfile

\* lines 202-204: the branch of an absent session
clearProfile ==
    /\ currentUserIdRef' = NoSubject
    /\ userDataRef' = NoProfile
    /\ userData' = NoProfile

\* handleSessionChange up to its first await (or to its return).
\* initial: the call is the one chained on the initial getSession(), whose
\* settling runs setLoading(false).
handleSessionChange(nextSession, initial) ==
    /\ isMounted
    /\ session' = nextSession
    /\ currentUser' = nextSession.sub
    /\ IF nextSession # NoSession
       THEN IF sameUserCached(nextSession)
            THEN /\ UNCHANGED <<currentUserIdRef, userData, userDataRef, resolves>>
                 /\ loading' = IF initial THEN FALSE ELSE loading
            ELSE /\ Len(resolves) < MaxInflight
                 /\ currentUserIdRef' = nextSession.sub
                 /\ resolves' = Append(resolves,
                        [sub |-> nextSession.sub, pc |-> "fetch", initial |-> initial])
                 /\ UNCHANGED <<userData, userDataRef, loading>>
       ELSE /\ clearProfile
            /\ loading' = IF initial THEN FALSE ELSE loading
            /\ UNCHANGED resolves

\* variant: an absent result does not replace the profile cached before
commitUserDataKeepsProfile(i, data) ==
    /\ userData' = IF data = NoProfile THEN userData ELSE data
    /\ userDataRef' = IF data = NoProfile THEN userDataRef ELSE data
    /\ loading' = IF resolves[i].initial THEN FALSE ELSE loading
    /\ resolves' = RemoveAt(resolves, i)

\* variant: the .finally of the initial call is missing
commitUserDataKeepsLoading(i, data) ==
    /\ userData' = data
    /\ userDataRef' = data
    /\ UNCHANGED loading
    /\ resolves' = RemoveAt(resolves, i)

\* handleSessionChange after `await fetchOrCreateUserData`: commit of the
\* resolver's result, then the .finally of the initial call.
commitUserData(i, data) ==
    /\ userData' = data
    /\ userDataRef' = data
    /\ loading' = IF resolves[i].initial THEN FALSE ELSE loading
    /\ resolves' = RemoveAt(resolves, i)

\* --------------------------------------------------- fetchOrCreateUserData

FetchOutcomes == {"served", "error", "abortValue", "abortThrown", "thrown"}

\* variant: the insert is issued although the select found the row
fetchOrCreateUserDataAlwaysInserts(i, outcome) ==
    /\ isMounted
    /\ i \in 1..Len(resolves)
    /\ resolves[i].pc = "fetch"
    /\ IF outcome = "served"
       THEN /\ resolves' = [resolves EXCEPT ![i].pc = "insert"]
            /\ UNCHANGED <<userData, userDataRef, loading>>
       ELSE commitUserData(i, NoProfile)
    /\ UNCHANGED <<currentUser, session, currentUserIdRef,
                   provSession, events, users, pulls, logoutPc>>
    /\ UNCHANGED authRet
    /\ UNCHANGED <<cacheVars, utilVars>>

\* variant: a select answered with an error issues the insert as well
fetchOrCreateUserDataInsertsOnError(i, outcome) ==
    /\ isMounted
    /\ i \in 1..Len(resolves)
    /\ resolves[i].pc = "fetch"
    /\ LET s == resolves[i].sub IN
       IF outcome = "served" /\ selectSingle(s) # NoRow
       THEN commitUserData(i, mapUserData(s, selectSingle(s)))
       ELSE IF outcome \in {"served", "error", "abortValue"}
       THEN /\ resolves' = [resolves EXCEPT ![i].pc = "insert"]
            /\ UNCHANGED <<userData, userDataRef, loading>>
       ELSE commitUserData(i, NoProfile)
    /\ UNCHANGED <<currentUser, session, currentUserIdRef,
                   provSession, events, users, pulls, logoutPc>>
    /\ UNCHANGED authRet
    /\ UNCHANGED <<cacheVars, utilVars>>

\* fetchOrCreateUserData from the answer of the select on users to its return
\* or to the insert.  outcome: the select was served by the store (its row, or
\* PGRST116), answered with another error, answered with an AbortError
\* message, or the call threw (an AbortError, or anything else).
fetchOrCreateUserData(i, outcome) ==
    /\ isMounted
    /\ i \in 1..Len(resolves)
    /\ resolves[i].pc = "fetch"
    /\ LET s == resolves[i].sub IN
       IF outcome = "served" /\ selectSingle(s) # NoRow
       THEN commitUserData(i, mapUserData(s, selectSingle(s)))
       ELSE IF outcome = "served"
       THEN \* PGRST116: no row, the insert is issued
            /\ resolves' = [resolves EXCEPT ![i].pc = "insert"]
            /\ UNCHANGED <<userData, userDataRef, loading>>
       ELSE commitUserData(i, NoProfile)
    /\ UNCHANGED <<currentUser, session, currentUserIdRef,
                   provSession, events, users, pulls, logoutPc>>
    /\ UNCHANGED authRet
    /\ UNCHANGED <<cacheVars, utilVars>>

\* variant: the insert is executed although a row of that id exists
insertUserNoPrimaryKey(i, served) ==
    /\ isMounted
    /\ i \in 1..Len(resolves)
    /\ resolves[i].pc = "insert"
    /\ LET s == resolves[i].sub IN
       IF served
       THEN /\ users' = Append(users, [id |-> s, role |-> "viewer"])
            /\ commitUserData(i, mapUserData(s, "viewer"))
       ELSE /\ UNCHANGED users
            /\ commitUserData(i, NoProfile)
    /\ UNCHANGED <<currentUser, session, currentUserIdRef,
                   provSession, events, pulls, logoutPc>>
    /\ UNCHANGED authRet
    /\ UNCHANGED <<cacheVars, utilVars>>

\* fetchOrCreateUserData from the answer of the insert to its return.  The
\* store executes the insert (served) unless a row of that id exists (primary
\* key on id), or the insert fails before reaching it.
insertUser(i, served) ==
    /\ isMounted
    /\ i \in 1..Len(resolves)
    /\ resolves[i].pc = "insert"
    /\ LET s == resolves[i].sub IN
       IF served /\ \A j \in 1..Len(users) : users[j].id # s
       THEN /\ users' = Append(users, [id |-> s, role |-> "viewer"])
            /\ commitUserData(i, mapUserData(s, "viewer"))
       ELSE /\ UNCHANGED users
            /\ commitUserData(i, NoProfile)
    /\ UNCHANGED <<currentUser, session, currentUserIdRef,
                   provSession, events, pulls, logoutPc>>
    /\ UNCHANGED authRet
    /\ UNCHANGED <<cacheVars, utilVars>>

\* The select on users is answered (or fails) and the resolver runs on.
FetchReply(i, outcome) ==
    /\ fetchOrCreateUserData(i, outcome)
    /\ UNCHANGED resolved

\* The insert into users is answered (or fails) and the resolver returns.
InsertReply(i, served) ==
    /\ insertUser(i, served)
    /\ UNCHANGED resolved

\* what the store answered to the select of resolution i
FetchAnswer(i, outcome) ==
    IF outcome # "served" THEN outcome
    ELSE IF selectSingle(resolves[i].sub) # NoRow THEN "row" ELSE "notFound"

\* FetchReply, with the answer of the store and the subject of the profile
\* cached when it arrived recorded
ObservedFetchReply(i, outcome) ==
    /\ fetchOrCreateUserData(i, outcome)
    /\ resolved' = [sub |-> resolves[i].sub, outcome |-> FetchAnswer(i, outcome),
                    before |-> userData.id, bit |-> 1 - resolved.bit]

\* InsertReply, with the answer of the store and the subject of the profile
\* cached when it arrived recorded
ObservedInsertReply(i, served) ==
    /\ insertUser(i, served)
    /\ resolved' = [sub |-> resolves[i].sub,
                    outcome |-> IF users' # users THEN "inserted" ELSE "insertError",
                    before |-> userData.id, bit |-> 1 - resolved.bit]

\* ------------------------------------------------------ session provider

Emit(name, s) == events' = Append(events, [kind |-> name, session |-> s])

\* A sign-in at the provider other than login(): register() or another tab.
SignIn(s) ==
    /\ isMounted
    /\ Len(events) < MaxQueue
    /\ provSession' = [sub |-> s, tok |-> 1]
    /\ Emit("SIGNED_IN", provSession')
    /\ UNCHANGED <<currentUser, session, userData, loading,
                   currentUserIdRef, userDataRef, users, pulls, resolves, logoutPc>>
    /\ UNCHANGED <<authRet, resolved>>
    /\ UNCHANGED <<cacheVars, utilVars>>

TokenRefresh ==
    /\ isMounted
    /\ Len(events) < MaxQueue
    /\ provSession # NoSession
    /\ provSession.tok < MaxTok
    /\ provSession' = [provSession EXCEPT !.tok = @ + 1]
    /\ Emit("TOKEN_REFRESHED", provSession')
    /\ UNCHANGED <<currentUser, session, userData, loading,
                   currentUserIdRef, userDataRef, users, pulls, resolves, logoutPc>>
    /\ UNCHANGED <<authRet, resolved>>
    /\ UNCHANGED <<cacheVars, utilVars>>

\* The provider repeats SIGNED_IN for the session it already holds.
DuplicateSignedIn ==
    /\ isMounted
    /\ Len(events) < MaxQueue
    /\ provSession # NoSession
    /\ Emit("SIGNED_IN", provSession)
    /\ UNCHANGED <<currentUser, session, userData, loading,
                   currentUserIdRef, userDataRef, provSession, users, pulls,
                   resolves, logoutPc>>
    /\ UNCHANGED <<authRet, resolved>>
    /\ UNCHANGED <<cacheVars, utilVars>>

\* The session ends at the provider (expiry, sign-out in another tab).
SignOut ==
    /\ isMounted
    /\ Len(events) < MaxQueue
    /\ provSession # NoSession
    /\ provSession' = NoSession
    /\ Emit("SIGNED_OUT", NoSession)
    /\ UNCHANGED <<currentUser, session, userData, loading,
                   currentUserIdRef, userDataRef, users, pulls, resolves, logoutPc>>
    /\ UNCHANGED <<authRet, resolved>>
    /\ UNCHANGED <<cacheVars, utilVars>>

\* variant: INITIAL_SESSION is reconciled like every other event
DeliverEventAll ==
    /\ isMounted
    /\ events # <<>>
    /\ events' = Tail(events)
    /\ handleSessionChange(Head(events).session, FALSE)
    /\ UNCHANGED <<provSession, users, pulls, logoutPc>>
    /\ UNCHANGED <<authRet, resolved>>
    /\ UNCHANGED <<cacheVars, utilVars>>

\* onAuthStateChange callback
DeliverEvent ==
    /\ isMounted
    /\ events # <<>>
    /\ events' = Tail(events)
    /\ IF Head(events).kind = "INITIAL_SESSION"
       THEN UNCHANGED <<currentUser, session, userData, loading,
                        currentUserIdRef, userDataRef, resolves>>
       ELSE handleSessionChange(Head(events).session, FALSE)
    /\ UNCHANGED <<provSession, users, pulls, logoutPc>>
    /\ UNCHANGED <<authRet, resolved>>
    /\ UNCHANGED <<cacheVars, utilVars>>

\* ----------------------------------------------------------- getSession()

\* .then of the initial getSession()
InitialSession(i) ==
    /\ isMounted
    /\ i \in 1..Len(pulls)
    /\ pulls[i].kind = "init"
    /\ pulls[i].ok
    /\ pulls' = RemoveAt(pulls, i)
    /\ handleSessionChange(pulls[i].res, TRUE)
    /\ UNCHANGED <<provSession, events, users, logoutPc>>
    /\ UNCHANGED <<authRet, resolved>>
    /\ UNCHANGED <<cacheVars, utilVars>>

\* .catch of the initial getSession()
InitialSessionFail(i) ==
    /\ isMounted
    /\ i \in 1..Len(pulls)
    /\ pulls[i].kind = "init"
    /\ ~pulls[i].ok
    /\ pulls' = RemoveAt(pulls, i)
    /\ loading' = FALSE
    /\ UNCHANGED <<currentUser, session, userData,
                   currentUserIdRef, userDataRef, provSession, events, users,
                   resolves, logoutPc>>
    /\ UNCHANGED <<authRet, resolved>>
    /\ UNCHANGED <<cacheVars, utilVars>>

\* handleVisibilityChange with document.visibilityState = "visible"
handleVisibilityChange(ok) ==
    /\ isMounted
    /\ Cardinality({i \in 1..Len(pulls) : pulls[i].kind = "vis"}) < MaxPulls
    /\ pulls' = Append(pulls, Pull("vis", provSession, ok))
    /\ UNCHANGED <<currentUser, session, userData, loading,
                   currentUserIdRef, userDataRef, provSession, events, users,
                   resolves, logoutPc>>
    /\ UNCHANGED <<authRet, resolved>>
    /\ UNCHANGED <<cacheVars, utilVars>>

\* variant: a user whose profile is not cached yet counts as different
differentOrUncached(freshSession) ==
    userDataRef = NoProfile \/ currentUserIdRef # freshSession.sub

\* variant: only the first load counts as different
firstLoadOnly(freshSession) == currentUserIdRef = NoSubject

\* line 245: a different user, or the first load
differentUser(freshSession) == currentUserIdRef # freshSession.sub

\* variant: setUserData(null) is missing
sessionExpiredKeepsProfile ==
    /\ session' = NoSession
    /\ currentUser' = NoSubject
    /\ UNCHANGED userData
    /\ currentUserIdRef' = NoSubject
    /\ userDataRef' = NoProfile

\* lines 251-255: there was a user and the pull returns no session
sessionExpired ==
    /\ session' = NoSession
    /\ currentUser' = NoSubject
    /\ userData' = NoProfile
    /\ currentUserIdRef' = NoSubject
    /\ userDataRef' = NoProfile

\* .then of the getSession() issued by handleVisibilityChange
VisibilitySession(i) ==
    /\ isMounted
    /\ i \in 1..Len(pulls)
    /\ pulls[i].kind = "vis"
    /\ pulls[i].ok
    /\ pulls' = RemoveAt(pulls, i)
    /\ LET freshSession == pulls[i].res IN
       IF freshSession # NoSession
       THEN /\ session' = freshSession
            /\ currentUser' = freshSession.sub
            /\ IF differentUser(freshSession)
               THEN handleSessionChange(freshSession, FALSE)
               ELSE UNCHANGED <<userData, loading, currentUserIdRef,
                                userDataRef, resolves>>
       ELSE IF currentUserIdRef # NoSubject
       THEN /\ sessionExpired
            /\ UNCHANGED <<loading, resolves>>
       ELSE UNCHANGED <<currentUser, session, userData, loading,
                        currentUserIdRef, userDataRef, resolves>>
    /\ UNCHANGED <<provSession, events, users, logoutPc>>
    /\ UNCHANGED <<authRet, resolved>>
    /\ UNCHANGED <<cacheVars, utilVars>>

\* variant: the catch drops the mirrored session
VisibilitySessionFailClears(i) ==
    /\ isMounted
    /\ i \in 1..Len(pulls)
    /\ pulls[i].kind = "vis"
    /\ ~pulls[i].ok
    /\ pulls' = RemoveAt(pulls, i)
    /\ session' = NoSession
    /\ currentUser' = NoSubject
    /\ UNCHANGED <<userData, loading,
                   currentUserIdRef, userDataRef, provSession, events, users,
                   resolves, logoutPc>>
    /\ UNCHANGED <<authRet, resolved>>
    /\ UNCHANGED <<cacheVars, utilVars>>

\* .catch of the getSession() issued by handleVisibilityChange
VisibilitySessionFail(i) ==
    /\ isMounted
    /\ i \in 1..Len(pulls)
    /\ pulls[i].kind = "vis"
    /\ ~pulls[i].ok
    /\ pulls' = RemoveAt(pulls, i)
    /\ UNCHANGED <<currentUser, session, userData, loading,
                   currentUserIdRef, userDataRef, provSession, events, users,
                   resolves, logoutPc>>
    /\ UNCHANGED <<authRet, resolved>>
    /\ UNCHANGED <<cacheVars, utilVars>>

\* ------------------------------------------------------------------ login

\* variant: login() mirrors the session itself instead of waiting for the event
loginMirrorsSession(s, error) ==
    /\ isMounted
    /\ IF error = Resolved
       THEN /\ Len(events) < MaxQueue
            /\ provSession' = [sub |-> s, tok |-> 1]
            /\ Emit("SIGNED_IN", provSession')
            /\ session' = provSession'
            /\ currentUser' = s
       ELSE UNCHANGED <<provSession, events, session, currentUser>>
    /\ authRet' = [op |-> "login", error |-> error]
    /\ UNCHANGED resolved
    /\ UNCHANGED <<userData, loading, currentUserIdRef, userDataRef,
                   users, pulls, resolves, logoutPc>>
    /\ UNCHANGED <<cacheVars, utilVars>>

\* login(email, password): signInWithPassword either opens the session of
\* subject s at the provider, which emits SIGNED_IN, or answers with an error
\* whose message login() throws.
login(s, error) ==
    /\ isMounted
    /\ IF error = Resolved
       THEN /\ Len(events) < MaxQueue
            /\ provSession' = [sub |-> s, tok |-> 1]
            /\ Emit("SIGNED_IN", provSession')
       ELSE UNCHANGED <<provSession, events>>
    /\ authRet' = [op |-> "login", error |-> error]
    /\ UNCHANGED resolved
    /\ UNCHANGED <<currentUser, session, userData, loading,
                   currentUserIdRef, userDataRef, users, pulls, resolves, logoutPc>>
    /\ UNCHANGED <<cacheVars, utilVars>>

\* ----------------------------------------------------------------- logout

\* logout() up to `await supabase.auth.signOut()`; the provider either ends
\* the session (and emits SIGNED_OUT) or fails.
logoutCall(ok) ==
    /\ isMounted
    /\ logoutPc = "idle"
    /\ IF ok
       THEN /\ Len(events) < MaxQueue
            /\ provSession' = NoSession
            /\ Emit("SIGNED_OUT", NoSession)
            /\ logoutPc' = "signedOut"
       ELSE /\ UNCHANGED <<provSession, events>>
            /\ logoutPc' = "signOutFailed"
    /\ UNCHANGED <<currentUser, session, userData, loading,
                   currentUserIdRef, userDataRef, users, pulls, resolves>>
    /\ UNCHANGED <<authRet, resolved>>
    /\ UNCHANGED <<cacheVars, utilVars>>

\* variant: a failed sign-out is thrown to the caller and nothing is cleared
logoutPropagates ==
    /\ isMounted
    /\ logoutPc # "idle"
    /\ logoutPc' = "idle"
    /\ IF logoutPc = "signOutFailed"
       THEN /\ UNCHANGED <<userData, session, currentUser, currentUserIdRef,
                           userDataRef>>
            /\ authRet' = [op |-> "logout", error |-> "Error signing out"]
       ELSE /\ userData' = NoProfile
            /\ session' = NoSession
            /\ currentUser' = NoSubject
            /\ currentUserIdRef' = NoSubject
            /\ userDataRef' = NoProfile
            /\ authRet' = [op |-> "logout", error |-> Resolved]
    /\ UNCHANGED <<loading, provSession, events, users, pulls, resolves,
                   resolved>>
    /\ UNCHANGED <<cacheVars, utilVars>>

\* logout() after the await (lines 155-162): a failure was caught and logged
logout ==
    /\ isMounted
    /\ logoutPc # "idle"
    /\ logoutPc' = "idle"
    /\ userData' = NoProfile
    /\ session' = NoSession
    /\ currentUser' = NoSubject
    /\ currentUserIdRef' = NoSubject
    /\ userDataRef' = NoProfile
    /\ authRet' = [op |-> "logout", error |-> Resolved]
    /\ UNCHANGED <<loading, provSession, events, users, pulls, resolves,
                   resolved>>
    /\ UNCHANGED <<cacheVars, utilVars>>


\* ------------------------------------------------------------ entity cache

Kinds == {"properties", "reservations", "transactions"}

CACHE_DURATION == 30000

\* limit(...) of the list query of each service module
PropertiesLimit   == 100
ReservationsLimit == 200
TransactionsLimit == 500
ListLimit == [properties   |-> PropertiesLimit,
              reservations |-> ReservationsLimit,
              transactions |-> TransactionsLimit]

\* `let xCache: X[] | null = null`
NullCache == [isNull |-> TRUE, records |-> <<>>]

Take(s, n) == SubSeq(s, 1, IF Len(s) < n THEN Len(s) ELSE n)

InsertAt(s, pos, r) == SubSeq(s, 1, pos - 1) \o <<r>> \o SubSeq(s, pos, Len(s))

\* getDocs(query(collection, orderBy(...), limit(n)))
ListQuery == Take(store, ListLimit[kind])

\* variant: an entry of age CACHE_DURATION still counts as valid
isCacheValidInclusive ==
    /\ ~entityCache.isNull
    /\ now - cacheTimestamp <= CACHE_DURATION

\* isCacheValid (transactionService) and the inline test of getProperties /
\* getReservations
isCacheValid ==
    /\ ~entityCache.isNull
    /\ now - cacheTimestamp < CACHE_DURATION

\* op: the call, value: the records it returned, remote: whether they came
\* from the store, error: the call failed; bit tells successive returns apart
Return(op, value, remote, error) ==
    ret' = [op |-> op, value |-> value, remote |-> remote, error |-> error,
            bit |-> 1 - ret.bit]

CacheIdle ==
    /\ kind = "transactions"
    /\ entityCache = NullCache
    /\ cacheTimestamp = 0
    /\ now = 0
    /\ store = <<>>
    /\ nextId = 1
    /\ gets = <<>>
    /\ writes = <<>>
    /\ ret = [op |-> "none", value |-> <<>>, remote |-> FALSE, error |-> FALSE, bit |-> 0]
    /\ written = FALSE
    /\ created = {}
    /\ reads = <<>>

CacheInit ==
    /\ kind \in Kinds
    /\ entityCache = NullCache
    /\ cacheTimestamp = 0
    /\ now = 0
    /\ store \in {<<>>, <<[id |-> 0, match |-> TRUE]>>}
    /\ nextId = 1
    /\ gets = <<>>
    /\ writes = <<>>
    /\ ret = [op |-> "none", value |-> <<>>, remote |-> FALSE, error |-> FALSE, bit |-> 0]
    /\ written = FALSE
    /\ created = {}
    /\ reads = <<>>

\* getProperties(forceRefresh) / getReservations(forceRefresh) /
\* getTransactions() up to `await getDocs(q)` or to the return of the cache.
\* The store answers the query from its content at the time of the call.
getEntities(forceRefresh) ==
    /\ forceRefresh => kind # "transactions"
    /\ IF ~forceRefresh /\ isCacheValid
       THEN /\ Return("get", entityCache.records, FALSE, FALSE)
            /\ UNCHANGED gets
       ELSE /\ Len(gets) < MaxGets
            /\ gets' = Append(gets, [snap |-> ListQuery, force |-> forceRefresh])
            /\ UNCHANGED ret
    /\ written' = FALSE
    /\ created' = {}
    /\ UNCHANGED <<kind, entityCache, cacheTimestamp, now, store, nextId, writes>>
    /\ UNCHANGED <<reads, authVars, utilVars>>

\* the same functions after `await getDocs(q)`
getEntitiesFetched(i) ==
    /\ i \in 1..Len(gets)
    /\ entityCache' = [isNull |-> FALSE, records |-> gets[i].snap]
    /\ cacheTimestamp' = now
    /\ Return("get", gets[i].snap, TRUE, FALSE)
    /\ gets' = RemoveAt(gets, i)
    /\ UNCHANGED <<kind, now, store, nextId, writes, written, created>>
    /\ UNCHANGED <<reads, authVars, utilVars>>

\* getDocs rejects: the call fails to its caller
getEntitiesFailed(i) ==
    /\ i \in 1..Len(gets)
    /\ Return("get", <<>>, FALSE, TRUE)
    /\ gets' = RemoveAt(gets, i)
    /\ UNCHANGED <<kind, entityCache, cacheTimestamp, now, store, nextId,
                   writes, written, created>>
    /\ UNCHANGED <<reads, authVars, utilVars>>

\* invalidatePropertiesCache / invalidateReservationsCache /
\* invalidateTransactionsCache
invalidateCache ==
    /\ entityCache' = NullCache
    /\ cacheTimestamp' = 0

Invalidate ==
    /\ ~entityCache.isNull
    /\ invalidateCache
    /\ UNCHANGED <<kind, now, store, nextId, gets, writes, ret, written, created>>
    /\ UNCHANGED <<reads, authVars, utilVars>>

\* create*/update*/delete* up to the await of the remote write; the store
\* applies the write (ok) or rejects it.
StartWrite(op, ok, ids) ==
    /\ Len(writes) < MaxWrites
    /\ writes' = Append(writes, [op |-> op, ok |-> ok, ids |-> ids])
    /\ UNCHANGED <<kind, entityCache, cacheTimestamp, now, gets, ret, written,
                   created>>

createEntity(match, pos, ok) ==
    /\ Len(store) < MaxStore
    /\ nextId <= MaxId
    /\ pos \in 1..Len(store) + 1
    /\ kind = "properties" => pos = 1
    /\ StartWrite("create", ok, IF ok THEN {nextId} ELSE {})
    /\ IF ok
       THEN /\ store' = InsertAt(store, pos, [id |-> nextId, match |-> match])
            /\ nextId' = nextId + 1
       ELSE UNCHANGED <<store, nextId>>
    /\ UNCHANGED <<reads, authVars, utilVars>>

updateEntity(j, ok) ==
    /\ j \in 1..Len(store)
    /\ StartWrite("update", ok, {})
    /\ store' = IF ok THEN [store EXCEPT ![j].match = ~@] ELSE store
    /\ UNCHANGED nextId
    /\ UNCHANGED <<reads, authVars, utilVars>>

deleteEntity(j, ok) ==
    /\ j \in 1..Len(store)
    /\ StartWrite("delete", ok, {})
    /\ store' = IF ok THEN RemoveAt(store, j) ELSE store
    /\ UNCHANGED nextId
    /\ UNCHANGED <<reads, authVars, utilVars>>

\* variant: the cache is cleared in a finally, also after a failed write
WriteReturnAlwaysInvalidates(i) ==
    /\ i \in 1..Len(writes)
    /\ writes' = RemoveAt(writes, i)
    /\ invalidateCache
    /\ IF writes[i].ok
       THEN /\ written' = TRUE
            /\ created' = writes[i].ids
            /\ Return(writes[i].op, <<>>, FALSE, FALSE)
       ELSE /\ UNCHANGED <<written, created>>
            /\ Return(writes[i].op, <<>>, FALSE, TRUE)
    /\ UNCHANGED <<kind, now, store, nextId, gets>>
    /\ UNCHANGED <<reads, authVars, utilVars>>

\* create*/update*/delete* after the await: invalidate, or fail to the caller
WriteReturn(i) ==
    /\ i \in 1..Len(writes)
    /\ writes' = RemoveAt(writes, i)
    /\ IF writes[i].ok
       THEN /\ invalidateCache
            /\ written' = TRUE
            /\ created' = writes[i].ids
            /\ Return(writes[i].op, <<>>, FALSE, FALSE)
       ELSE /\ UNCHANGED <<entityCache, cacheTimestamp, written, created>>
            /\ Return(writes[i].op, <<>>, FALSE, TRUE)
    /\ UNCHANGED <<kind, now, store, nextId, gets>>
    /\ UNCHANGED <<reads, authVars, utilVars>>

Tick ==
    /\ now + TickStep <= MaxNow
    /\ now' = now + TickStep
    /\ UNCHANGED <<kind, entityCache, cacheTimestamp, store, nextId, gets,
                   writes, ret, written, created>>
    /\ UNCHANGED <<reads, authVars, utilVars>>

CacheNext ==
    \/ \E f \in BOOLEAN : getEntities(f)
    \/ \E i \in 1..MaxGets : getEntitiesFetched(i)
    \/ \E i \in 1..MaxGets : getEntitiesFailed(i)
    \/ Invalidate
    \/ \E m \in BOOLEAN, pos \in 1..MaxStore, ok \in BOOLEAN : createEntity(m, pos, ok)
    \/ \E j \in 1..MaxStore, ok \in BOOLEAN : updateEntity(j, ok)
    \/ \E j \in 1..MaxStore, ok \in BOOLEAN : deleteEntity(j, ok)
    \/ \E i \in 1..MaxWrites : WriteReturn(i)
    \/ Tick

\* ------------------------------------------------ getById and derived reads

\* limit(...) of the scoped queries getActiveProperties,
\* getReservationsByProperty and getUpcomingReservations issue
ActiveLimit     == 100
ByPropertyLimit == 100
UpcomingLimit   == 50

\* the derived reads each service module exports
DerivedReads == [properties   |-> {"active"},
                 reservations |-> {"byProperty", "upcoming", "byDateRange"},
                 transactions |-> {"byProperty", "byType", "byDateRange"}]

\* a read in flight carries no id
NoId == -1

\* variant: every module tests the age of the entry
cacheUsableFresh == isCacheValid

\* The test a getById or a derived read runs before it uses the cache:
\* `if (propertiesCache)`, `if (reservationsCache)`, `if (isCacheValid())`.
cacheUsable ==
    IF kind = "transactions" THEN isCacheValid ELSE ~entityCache.isNull

\* the predicate of the derived read holds of record r (p.isActive,
\* r.propertyId === propertyId, t.type === type, the date inside the range)
Matches(r) == r.match

\* r.status === "pending" || r.status === "confirmed": every reservation of
\* the model is confirmed
isOpen(r) == r.id >= 0

\* records.filter(...)
filter(records) == SelectSeq(records, Matches)

\* records.find((r) => r.id === id): <<the first record of that id>>, or <<>>
find(records, id) ==
    IF \E j \in 1..Len(records) : records[j].id = id
    THEN <<records[CHOOSE j \in 1..Len(records) :
                      /\ records[j].id = id
                      /\ \A k \in 1..j - 1 : records[k].id # id]>>
    ELSE <<>>

Reverse(s) == [j \in 1..Len(s) |-> s[Len(s) + 1 - j]]

\* The properties of the model are named in the order of their creation
\* ("Casa 0", "Casa 1", ...): the rank of a name is the id of its record.
nameRank(r) == r.id

\* orderBy("name")
RECURSIVE orderByName(_)
orderByName(s) ==
    IF s = <<>> THEN <<>>
    ELSE LET j == CHOOSE k \in 1..Len(s) :
                     \A l \in 1..Len(s) : nameRank(s[k]) <= nameRank(s[l])
         IN <<s[j]>> \o orderByName(RemoveAt(s, j))

\* What the remote store answers to the query a derived read issues when it
\* does not use the cache.  The store is held in the order of the list query
\* (createdAt desc, checkIn desc, date desc); orderBy("checkIn") is the
\* reverse of that order.  getTransactionsBy* call getTransactions().
RemoteQuery(op) ==
    CASE kind = "properties" ->
             Take(orderByName(filter(store)), ActiveLimit)
      [] kind = "reservations" /\ op = "byProperty" ->
             Take(filter(store), ByPropertyLimit)
      [] kind = "reservations" /\ op = "upcoming" ->
             Take(Reverse(filter(store)), UpcomingLimit)
      [] kind = "reservations" /\ op = "byDateRange" ->
             Reverse(filter(store))
      [] kind = "transactions" -> ListQuery

\* getPropertyById / getReservationById / getTransactionById up to
\* `await getDoc(docRef)` or to the return of the cached record
getEntityById(id) ==
    /\ IF cacheUsable /\ find(entityCache.records, id) # <<>>
       THEN /\ Return("getById", find(entityCache.records, id), FALSE, FALSE)
            /\ UNCHANGED reads
       ELSE /\ Len(reads) < MaxReads
            /\ reads' = Append(reads, [op |-> "getById", id |-> id,
                                       snap |-> find(store, id), fill |-> FALSE])
            /\ UNCHANGED ret
    /\ UNCHANGED <<kind, entityCache, cacheTimestamp, now, store, nextId, gets,
                   writes, written, created>>
    /\ UNCHANGED <<authVars, utilVars>>

\* getActiveProperties / getReservationsByProperty / getUpcomingReservations /
\* getReservationsByDateRange / getTransactionsByProperty / ByType /
\* ByDateRange up to `await getDocs(q)` or to the return of the filtered cache.
\* getReservationsByDateRange does not look at the cache.
derivedRead(op) ==
    /\ op \in DerivedReads[kind]
    /\ IF cacheUsable /\ ~(kind = "reservations" /\ op = "byDateRange")
       THEN /\ Return(op, filter(entityCache.records), FALSE, FALSE)
            /\ UNCHANGED reads
       ELSE /\ Len(reads) < MaxReads
            /\ reads' = Append(reads, [op |-> op, id |-> NoId,
                                       snap |-> RemoteQuery(op),
                                       fill |-> kind = "transactions"])
            /\ UNCHANGED ret
    /\ UNCHANGED <<kind, entityCache, cacheTimestamp, now, store, nextId, gets,
                   writes, written, created>>
    /\ UNCHANGED <<authVars, utilVars>>

\* what a read returns from the answer of the store: the document or null,
\* the rows of the query, for getUpcomingReservations those of open status
RemoteResult(read) ==
    IF read.op = "upcoming" THEN SelectSeq(read.snap, isOpen) ELSE read.snap

\* The same functions after the await: getDoc / getDocs resolved (ok) or
\* rejected.  A missing document is returned as null; the list fetched by
\* getTransactions() is stored in the cache before it is filtered; the rows
\* of getUpcomingReservations are filtered by status.
readReply(i, ok) ==
    /\ i \in 1..Len(reads)
    /\ reads' = RemoveAt(reads, i)
    /\ IF ~ok
       THEN /\ Return(reads[i].op, <<>>, FALSE, TRUE)
            /\ UNCHANGED <<entityCache, cacheTimestamp>>
       ELSE IF reads[i].fill
       THEN /\ entityCache' = [isNull |-> FALSE, records |-> reads[i].snap]
            /\ cacheTimestamp' = now
            /\ Return(reads[i].op, filter(reads[i].snap), TRUE, FALSE)
       ELSE /\ Return(reads[i].op, RemoteResult(reads[i]), TRUE, FALSE)
            /\ UNCHANGED <<entityCache, cacheTimestamp>>
    /\ UNCHANGED <<kind, now, store, nextId, gets, writes, written, created>>
    /\ UNCHANGED <<authVars, utilVars>>

ReadNext ==
    \/ \E id \in 0..MaxId : getEntityById(id)
    \/ \E op \in {"active", "byProperty", "byType", "upcoming", "byDateRange"} :
          derivedRead(op)
    \/ \E i \in 1..MaxReads, ok \in BOOLEAN : readReply(i, ok)

\* The session manager at rest, for the behaviours of the entity cache.
AuthIdle ==
    /\ currentUser = NoSubject
    /\ session = NoSession
    /\ userData = NoProfile
    /\ loading = TRUE
    /\ currentUserIdRef = NoSubject
    /\ userDataRef = NoProfile
    /\ provSession = NoSession
    /\ events = <<>>
    /\ users = InitialUsers
    /\ pulls = <<>>
    /\ resolves = <<>>
    /\ logoutPc = "idle"
    /\ authRet = NoReturn
    /\ resolved = NoResolved


\* ------------------------------------------------------- date-only fields
\* A Date is its instant, in hours since 00:00 UTC of EpochDate; local time
\* is UTC + tz.  A calendar date is [y, m, d].

EpochDate == [y |-> 2023, m |-> 12, d |-> 30]

IsLeap(y) == (y % 4 = 0 /\ y % 100 # 0) \/ y % 400 = 0

DaysInMonth(y, m) ==
    IF m = 2 THEN (IF IsLeap(y) THEN 29 ELSE 28)
    ELSE IF m \in {4, 6, 9, 11} THEN 30 ELSE 31

\* days of year y before its month m
RECURSIVE DaysBeforeMonth(_, _)
DaysBeforeMonth(y, m) ==
    IF m = 1 THEN 0 ELSE DaysBeforeMonth(y, m - 1) + DaysInMonth(y, m - 1)

\* days from 1 January of EpochDate.y to 1 January of y
DaysBeforeYear(y) ==
    365 * (y - EpochDate.y) + Cardinality({k \in EpochDate.y..y - 1 : IsLeap(k)})

\* days from EpochDate to c
DayNumber(c) ==
    DaysBeforeYear(c.y) + DaysBeforeMonth(c.y, c.m) + c.d
        - (DaysBeforeMonth(EpochDate.y, EpochDate.m) + EpochDate.d)

CalendarDates ==
    {c \in [y : EpochDate.y..EpochDate.y + 1, m : 1..12, d : 1..31] :
        c.d <= DaysInMonth(c.y, c.m) /\ DayNumber(c) \in 0..MaxDay}

CivilTable == [n \in 0..MaxDay |-> CHOOSE c \in CalendarDates : DayNumber(c) = n]

\* the day n days after EpochDate
Civil(n) == CivilTable[n]

DigitChars == <<"0", "1", "2", "3", "4", "5", "6", "7", "8", "9">>

IsDigit(ch) == \E i \in 1..10 : DigitChars[i] = ch

DigitValue(ch) == (CHOOSE i \in 1..10 : DigitChars[i] = ch) - 1

\* String(n) for n >= 0
RECURSIVE String(_)
String(n) ==
    IF n < 10 THEN <<DigitChars[n + 1]>>
    ELSE String(n \div 10) \o <<DigitChars[(n % 10) + 1]>>

\* s.padStart(2, "0")
padStart(s) == IF Len(s) < 2 THEN <<"0">> \o s ELSE s

\* Number.isNaN(Number(s)) is false
IsNumeric(s) == \A i \in 1..Len(s) : IsDigit(s[i])

\* Number(s) for a string of digits
RECURSIVE Number(_)
Number(s) ==
    IF s = <<>> THEN 0
    ELSE 10 * Number(SubSeq(s, 1, Len(s) - 1)) + DigitValue(s[Len(s)])

\* s.split(sep)
RECURSIVE split(_, _)
split(s, sep) ==
    IF \E i \in 1..Len(s) : s[i] = sep
    THEN LET i == CHOOSE k \in 1..Len(s) :
                     s[k] = sep /\ \A j \in 1..k - 1 : s[j] # sep
         IN <<SubSeq(s, 1, i - 1)>> \o split(SubSeq(s, i + 1, Len(s)), sep)
    ELSE <<s>>

\* new Date(year, monthIndex, day): midnight of the local day
NewDateLocal(year, monthIndex, day) ==
    DayNumber([y |-> year, m |-> monthIndex + 1, d |-> day]) * 24 - tz

\* getFullYear(), getMonth(), getDate(): fields of the local day
LocalCivil(t) == Civil((t + tz) \div 24)
getFullYear(t) == LocalCivil(t).y
getMonth(t) == LocalCivil(t).m - 1
getDate(t) == LocalCivil(t).d

\* toISOString(): the UTC day and time
toISOString(t) ==
    LET c == Civil(t \div 24) IN
    String(c.y) \o <<"-">> \o padStart(String(c.m)) \o <<"-">>
        \o padStart(String(c.d)) \o <<"T">> \o padStart(String(t % 24))
        \o <<":", "0", "0", ":", "0", "0", ".", "0", "0", "0", "Z">>

\* new Date(string): a date-only text is midnight UTC of that day, a text
\* with time and Z is that UTC instant
NewDateString(s) ==
    LET parts == split(s, "T")
        ymd == split(parts[1], "-")
        day == DayNumber([y |-> Number(ymd[1]), m |-> Number(ymd[2]),
                          d |-> Number(ymd[3])])
    IN IF Len(parts) = 1 THEN day * 24
       ELSE day * 24 + Number(SubSeq(parts[2], 1, 2))

\* parseDateOnly(value) for a Date (line 4-6)
parseDateOnlyOfDate(value) ==
    NewDateLocal(getFullYear(value), getMonth(value), getDate(value))

\* parseDateOnly(value) for a string (line 8-19)
parseDateOnly(value) ==
    LET datePart == split(value, "T")[1]
        ymd == split(datePart, "-")
    IN IF Len(ymd) < 3 \/ ~IsNumeric(ymd[1]) \/ ~IsNumeric(ymd[2])
           \/ ~IsNumeric(ymd[3])
       THEN LET fallback == NewDateString(value) IN
            NewDateLocal(getFullYear(fallback), getMonth(fallback),
                         getDate(fallback))
       ELSE NewDateLocal(Number(ymd[1]), Number(ymd[2]) - 1, Number(ymd[3]))

\* formatDateOnly(value) for a Date
formatDateOnly(value) ==
    LET date == parseDateOnlyOfDate(value) IN
    String(getFullYear(date)) \o <<"-">>
        \o padStart(String(getMonth(date) + 1)) \o <<"-">>
        \o padStart(String(getDate(date)))

DateFields == {"reservation", "accessCode", "dateBlock"}

\* mapDbToReservation / mapDbToAccessCode / mapDbToDateBlock on a date column
mapDbDate(field, text) ==
    IF field = "dateBlock" THEN NewDateString(text) ELSE parseDateOnly(text)

\* the date columns of the row sent by createReservation / createAccessCode /
\* createDateBlock
insertDate(field, date) ==
    IF field = "dateBlock" THEN split(toISOString(date), "T")[1]
    ELSE formatDateOnly(date)

\* the text of a DATE column as the store returns it
DateColumn(c) ==
    String(c.y) \o <<"-">> \o padStart(String(c.m)) \o <<"-">>
        \o padStart(String(c.d))

\* offsets and days the conversions are run on
Offsets == {-11, -3, 0, 2, 13}
InputDays == {2, 33, 61, 62}

\* An entity is built in memory from calendarDate, or its row is in the store.
UtilInit ==
    /\ permitted = [role |-> "none", value |-> FALSE]
    /\ tz \in Offsets
    /\ dateField \in DateFields
    /\ calendarDate \in {Civil(n) : n \in InputDays}
    /\ \/ /\ inMemory = <<NewDateLocal(calendarDate.y, calendarDate.m - 1,
                                       calendarDate.d)>>
          /\ wire = <<>>
       \/ /\ inMemory = <<>>
          /\ wire = DateColumn(calendarDate)

\* the entity is written: its date goes to the wire
writeDate ==
    /\ inMemory # <<>>
    /\ wire' = insertDate(dateField, inMemory[1])
    /\ UNCHANGED <<permitted, tz, dateField, calendarDate, inMemory>>
    /\ UNCHANGED <<authVars, cacheVars>>

\* the row is read: its date column is mapped to a Date
readDate ==
    /\ wire # <<>>
    /\ inMemory' = <<mapDbDate(dateField, wire)>>
    /\ UNCHANGED <<permitted, tz, dateField, calendarDate, wire>>
    /\ UNCHANGED <<authVars, cacheVars>>

\* a caller evaluates hasPermission(requiredRole)
checkPermission(requiredRole) ==
    /\ permitted' = [role |-> requiredRole, value |-> hasPermission(requiredRole)]
    /\ UNCHANGED <<tz, dateField, calendarDate, wire, inMemory>>
    /\ UNCHANGED <<authVars, cacheVars>>

UtilNext ==
    \/ writeDate
    \/ readDate
    \/ \E r \in Roles : checkPermission(r)

\* The provider with some profile, or none, cached
ProfileCached ==
    /\ userData \in {NoProfile}
                    \cup {mapUserData(sub, role) : sub \in Subjects, role \in Roles}
    /\ userDataRef = userData
    /\ currentUserIdRef = userData.id
    /\ currentUser = userData.id
    /\ session = IF userData = NoProfile THEN NoSession
                 ELSE [sub |-> userData.id, tok |-> 1]
    /\ provSession = session
    /\ loading = FALSE
    /\ events = <<>>
    /\ users = InitialUsers
    /\ pulls = <<>>
    /\ resolves = <<>>
    /\ logoutPc = "idle"
    /\ authRet = NoReturn
    /\ resolved = NoResolved

\* ---------------------------------------------------------- observed steps
\* Steps of the handlers, recognised from the change of the state alone.

\* the onAuthStateChange callback ran handleSessionChange(sess)
EventReconciled(sess) ==
    /\ events # <<>>
    /\ events' = Tail(events)
    /\ Head(events).kind # "INITIAL_SESSION"
    /\ Head(events).session = sess

\* the initial getSession() resolved with sess
InitReconciled(sess) ==
    \E i \in 1..Len(pulls) :
        /\ pulls[i].kind = "init" /\ pulls[i].ok /\ pulls[i].res = sess
        /\ pulls' = RemoveAt(pulls, i)

\* the getSession() of a visibility change resolved with sess
VisDelivered(sess) ==
    \E i \in 1..Len(pulls) :
        /\ pulls[i].kind = "vis" /\ pulls[i].ok /\ pulls[i].res = sess
        /\ pulls' = RemoveAt(pulls, i)

\* the getSession() of a visibility change rejected
VisFailed ==
    \E i \in 1..Len(pulls) :
        /\ pulls[i].kind = "vis" /\ ~pulls[i].ok
        /\ pulls' = RemoveAt(pulls, i)

\* fetchOrCreateUserData was called for subject s
Invoked(s) ==
    /\ Len(resolves') = Len(resolves) + 1
    /\ resolves'[Len(resolves')].sub = s
    /\ resolves'[Len(resolves')].pc = "fetch"

AllAbsent ==
    /\ session = NoSession
    /\ currentUser = NoSubject
    /\ currentUserIdRef = NoSubject
    /\ userData = NoProfile
    /\ userDataRef = NoProfile

\* ------------------------------------------------------------------ claims

\* C1 (subject-switch correctness): once no profile resolution is in flight,
\* the cached profile is absent or is the profile of the subject of the
\* latest reconciliation (currentUserIdRef), never that of an earlier one.
C1_SubjectSwitch ==
    (resolves = <<>> /\ currentUserIdRef \in Subjects)
        => (userData = NoProfile \/ userData.id = currentUserIdRef)

\* C2 as stated (idempotent reconciliation): a reconcile call carrying the
\* subject id of the previous call never invokes the resolver again, also
\* while the earlier resolution is still in flight.
C2_ResolvedOnce ==
    [][\A sess \in Sessions :
          ((EventReconciled(sess) \/ InitReconciled(sess))
              /\ currentUserIdRef = sess.sub)
          => resolves' = resolves]_vars

\* C2 as amended: a reconcile call carrying the cached subject id invokes no
\* resolver when a profile is cached, and invokes the resolver (again) when
\* none is cached yet.
C2_NoopWhileCached ==
    [][\A sess \in Sessions :
          ((EventReconciled(sess) \/ InitReconciled(sess))
              /\ currentUserIdRef = sess.sub)
          => IF userDataRef # NoProfile
             THEN resolves' = resolves
             ELSE Invoked(sess.sub)]_vars

\* two resolutions for the cached subject are in flight at once
C2_Witness ==
    /\ Len(resolves) = 2
    /\ resolves[1].sub = resolves[2].sub
    /\ currentUserIdRef = resolves[1].sub

\* C3 (invalidate-on-write): the first get() called after a successful
\* create/update/delete issues a remote fetch.
C3_InvalidateOnWrite ==
    [][(written /\ ~written') => Len(gets') = Len(gets) + 1]_vars

\* C4 (cache TTL): a get() on an entry younger than CACHE_DURATION returns the
\* cached sequence and fetches nothing; a get() on an entry of age
\* CACHE_DURATION or more issues exactly one fetch; a completed fetch replaces
\* the cached records and the timestamp.
C4_CacheTTL ==
    [][LET fresh == ~entityCache.isNull /\ now - cacheTimestamp < 30000
           stale == ~entityCache.isNull /\ now - cacheTimestamp >= 30000
           returned == ret'.bit # ret.bit /\ ret'.op = "get" /\ ~ret'.error
           issued == Len(gets') = Len(gets) + 1
       IN
       \* a get() that is not forced fetches nothing on a fresh entry
       /\ (issued /\ ~gets'[Len(gets')].force) => ~fresh
       \* a get() that returns without a fetch returns the fresh entry
       /\ (returned /\ gets' = gets)
             => /\ fresh
                /\ ret'.value = entityCache.records
                /\ UNCHANGED <<entityCache, cacheTimestamp>>
       \* hence a get() on a stale entry issues one fetch
       /\ (stale /\ (issued \/ (returned /\ gets' = gets)))
             => issued /\ UNCHANGED <<entityCache, cacheTimestamp, ret>>
       \* the fetch replaces records and timestamp
       /\ (returned /\ Len(gets') < Len(gets))
             => /\ entityCache' = [isNull |-> FALSE, records |-> ret'.value]
                /\ cacheTimestamp' = now
                /\ \E i \in 1..Len(gets) : ret'.value = gets[i].snap
      ]_vars

\* a get() was served from an entry of age TickStep
C4_Witness ==
    /\ ret.op = "get" /\ ~ret.remote /\ ~ret.error
    /\ ~entityCache.isNull
    /\ ret.value = entityCache.records
    /\ ret.value # <<>>
    /\ now - cacheTimestamp = TickStep

\* C5 (token-refresh no-op): an event whose session carries the cached subject
\* id, delivered while a profile is cached, issues no fetch or insert and
\* leaves the cached subject id and the cached profile unchanged.
C5_TokenRefreshNoop ==
    [][\A sess \in Sessions :
          (EventReconciled(sess) /\ sess.sub = currentUserIdRef
              /\ userDataRef # NoProfile)
          => /\ UNCHANGED <<currentUserIdRef, userData, userDataRef>>
             /\ UNCHANGED <<resolves, users>>
             /\ session' = sess]_vars

\* the refreshed session is mirrored next to the profile cached before
C5_Witness ==
    /\ session # NoSession /\ session.tok = 2 /\ session = provSession
    /\ events = <<>> /\ pulls = <<>> /\ resolves = <<>>
    /\ userData # NoProfile
    /\ userData.id = session.sub
    /\ currentUserIdRef = session.sub

\* C6: reconcile(absent) leaves session, user, subject id and profile absent.
C6_ReconcileAbsent ==
    [][(EventReconciled(NoSession) \/ InitReconciled(NoSession))
          => AllAbsent']_vars

\* signed out by the provider after subject A had been provisioned
C6_Witness ==
    /\ AllAbsent
    /\ provSession = NoSession
    /\ events = <<>> /\ pulls = <<>> /\ resolves = <<>>
    /\ logoutPc = "idle"
    /\ selectSingle("A") = "viewer"

\* C7 (expiry while backgrounded): a visibility pull that returns no session
\* while a subject id is cached clears session, user, subject id and profile
\* in that step, issues nothing further, and hasPermission is false for every
\* role.
C7_ExpiryOnFocus ==
    [][(VisDelivered(NoSession) /\ currentUserIdRef # NoSubject)
          => /\ AllAbsent'
             /\ \A r \in Roles : ~hasPermission(r)'
             /\ UNCHANGED <<resolves, events, users>>]_vars

\* cleared while the provider's SIGNED_OUT is still undelivered
C7_Witness ==
    /\ AllAbsent
    /\ events # <<>> /\ Head(events).kind = "SIGNED_OUT"
    /\ pulls = <<>>
    /\ logoutPc = "idle"
    /\ selectSingle("A") = "viewer"
    /\ \A r \in Roles : ~hasPermission(r)

\* C8 (focus recovery, same subject): a visibility pull whose session carries
\* the cached subject id replaces the mirrored session and user only.
C8_FocusSameSubject ==
    [][\A sess \in Sessions :
          (VisDelivered(sess) /\ sess.sub = currentUserIdRef)
          => /\ session' = sess
             /\ currentUser' = sess.sub
             /\ UNCHANGED <<currentUserIdRef, userData, userDataRef, loading>>
             /\ UNCHANGED <<resolves, users>>]_vars

\* the refreshed session is mirrored before its TOKEN_REFRESHED is delivered
C8_Witness ==
    /\ session # NoSession /\ session.tok = 2
    /\ events # <<>> /\ Head(events).kind = "TOKEN_REFRESHED"
    /\ Head(events).session = session
    /\ currentUserIdRef = session.sub
    /\ pulls = <<>>

\* C9 (focus recovery, different subject): a visibility pull whose session
\* carries another subject id than the cached one (or none is cached) makes
\* that subject the cached one and invokes the resolver for it; a resolution
\* that completes caches its result, the profile of its subject or absent.
C9_FocusOtherSubject ==
    [][/\ \A sess \in Sessions :
             (VisDelivered(sess) /\ sess.sub # currentUserIdRef)
             => /\ session' = sess
                /\ currentUserIdRef' = sess.sub
                /\ Invoked(sess.sub)
       /\ Len(resolves') < Len(resolves)
             => /\ userDataRef' = userData'
                /\ \E i \in 1..Len(resolves) :
                      /\ resolves' = RemoveAt(resolves, i)
                      /\ \/ userData' = NoProfile
                         \/ /\ userData'.id = resolves[i].sub
                            /\ userData'.role = single(users', resolves[i].sub)
      ]_vars

\* a resolution not started by the initial pull is in flight for a session
\* whose SIGNED_IN is still undelivered
C9_Witness ==
    /\ session # NoSession
    /\ currentUserIdRef = session.sub
    /\ events # <<>> /\ Head(events).kind = "SIGNED_IN"
    /\ Head(events).session = session
    /\ pulls = <<>>
    /\ Len(resolves) = 1
    /\ resolves[1].sub = session.sub /\ ~resolves[1].initial

\* C10: a rejected visibility pull changes nothing of session, user, subject
\* id, profile and loading, and starts no resolution.
C10_FocusPullFailure ==
    [][VisFailed
          => /\ UNCHANGED <<session, currentUser, currentUserIdRef, userData,
                            userDataRef, loading>>
             /\ UNCHANGED <<resolves, events>>]_vars

\* a visibility pull that will reject is in flight while a profile is cached
C10_Witness ==
    /\ session # NoSession
    /\ userData # NoProfile
    /\ \E i \in 1..Len(pulls) : pulls[i].kind = "vis" /\ ~pulls[i].ok

\* logout() ran its part after the await and returned
LogoutReturned == logoutPc # "idle" /\ logoutPc' = "idle"

\* the onAuthStateChange callback ran for the oldest undelivered event
EventDelivered == events # <<>> /\ events' = Tail(events)

\* the initial getSession() is pending, or the handleSessionChange chained on
\* it has not settled
InitialPending ==
    \/ \E i \in 1..Len(pulls) : pulls[i].kind = "init"
    \/ \E i \in 1..Len(resolves) : resolves[i].initial

\* C11: when logout() returns, session, user, subject id and profile are
\* absent and the call has resolved, whether signOut() succeeded or failed.
C11_LogoutClears ==
    [][LogoutReturned
          => /\ AllAbsent'
             /\ authRet' = [op |-> "logout", error |-> Resolved]]_vars

\* logout() has returned after a failed sign-out: everything is absent
\* locally while the provider still holds the session
C11_Witness ==
    /\ AllAbsent
    /\ authRet = [op |-> "logout", error |-> Resolved]
    /\ logoutPc = "idle"
    /\ provSession # NoSession
    /\ events = <<>> /\ pulls = <<>> /\ resolves = <<>>

\* C12: loading is true exactly while the initial pull or the reconciliation
\* run against it is unsettled, and no step sets it back to true.
C12_Loading ==
    /\ [](loading <=> InitialPending)
    /\ [][loading' => loading]_vars

\* loading stays false while a later resolution is in flight
C12_Witness ==
    /\ ~loading
    /\ Len(resolves) = 1 /\ ~resolves[1].initial
    /\ userData = NoProfile
    /\ session # NoSession

\* C13: the delivery of an INITIAL_SESSION event changes nothing but the
\* queue and issues no remote call; the delivery of any other event runs
\* handleSessionChange on the event's session.
C13_InitialSessionIgnored ==
    [][EventDelivered
          => IF Head(events).kind = "INITIAL_SESSION"
             THEN UNCHANGED <<currentUser, session, userData, loading,
                              currentUserIdRef, userDataRef, provSession,
                              users, pulls, resolves, logoutPc, authRet>>
             ELSE LET sess == Head(events).session IN
                  /\ session' = sess
                  /\ currentUser' = sess.sub
                  /\ currentUserIdRef' = sess.sub
                  /\ IF sess = NoSession
                     THEN AllAbsent'
                     ELSE IF currentUserIdRef = sess.sub /\ userDataRef # NoProfile
                     THEN UNCHANGED <<userData, userDataRef, resolves>>
                     ELSE Invoked(sess.sub)]_vars

\* the INITIAL_SESSION event of a signed-in start was delivered and nothing
\* was mirrored or resolved: the initial pull is still pending
C13_Witness ==
    /\ events = <<>>
    /\ \E i \in 1..Len(pulls) :
          pulls[i].kind = "init" /\ pulls[i].ok /\ pulls[i].res # NoSession
    /\ session = NoSession /\ currentUserIdRef = NoSubject
    /\ resolves = <<>> /\ loading
    /\ authRet = NoReturn

\* C14: a step in which login() fails leaves the session manager and the
\* provider unchanged and throws the provider's message; a step in which
\* login() succeeds only makes the provider emit SIGNED_IN; no step in which
\* the provider emits an event (a login() that succeeds like the previous call
\* included) changes session, user, subject id, profile or loading: they
\* change when the event is delivered.
C14_LoginFrame ==
    [][/\ (authRet' # authRet /\ authRet'.op = "login" /\ authRet'.error # Resolved)
             => /\ authRet'.error \in ProviderMessages
                /\ UNCHANGED <<currentUser, session, userData, loading,
                               currentUserIdRef, userDataRef, provSession,
                               events, users, pulls, resolves, logoutPc>>
       /\ (authRet' # authRet /\ authRet'.op = "login" /\ authRet'.error = Resolved)
             => /\ events' = Append(events, [kind |-> "SIGNED_IN",
                                             session |-> provSession'])
                /\ provSession' # NoSession
       /\ (authRet'.op = "login" /\ Len(events') > Len(events))
             => UNCHANGED <<currentUser, session, userData, loading,
                            currentUserIdRef, userDataRef, users, pulls,
                            resolves>>
      ]_vars

\* login() has succeeded and its SIGNED_IN is undelivered: nothing is mirrored
C14_Witness ==
    /\ authRet = [op |-> "login", error |-> Resolved]
    /\ events # <<>> /\ Head(events).kind = "SIGNED_IN"
    /\ Head(events).session = provSession
    /\ session = NoSession /\ currentUserIdRef = NoSubject
    /\ userData = NoProfile
    /\ ~loading

\* C19 (signed-out is stable): while no subject id is cached, that is from a
\* logout() or a reconciliation of an absent session until a session is
\* reconciled again, no profile is cached.
C19_SignedOutStable ==
    currentUserIdRef = NoSubject => userData = NoProfile

\* C20: a cached profile is that of the cached subject id and of the subject
\* of the mirrored session.
C20_ProfileOfCurrentSubject ==
    userData # NoProfile
        => /\ userData.id = currentUserIdRef
           /\ userData.id = session.sub

\* C16: calling a create, update or delete leaves the cache entry unchanged;
\* when its remote write fails, the call fails to its caller and still leaves
\* the entry unchanged; when it succeeds, the entry is cleared on return; and
\* the cached sequence only ever changes to empty or to a fetched list.
C16_FailedWriteKeepsCache ==
    [][/\ Len(writes') = Len(writes) + 1
             => UNCHANGED <<entityCache, cacheTimestamp>>
       /\ \A i \in 1..Len(writes) :
             (writes' = RemoveAt(writes, i) /\ ~writes[i].ok)
             => /\ ret'.op = writes[i].op /\ ret'.error
                /\ UNCHANGED <<entityCache, cacheTimestamp, store>>
       /\ \A i \in 1..Len(writes) :
             (writes' = RemoveAt(writes, i) /\ writes[i].ok)
             => /\ ret'.op = writes[i].op /\ ~ret'.error
                /\ entityCache' = NullCache /\ cacheTimestamp' = 0
       /\ entityCache' # entityCache
             => \/ entityCache' = NullCache /\ gets' = gets
                \/ \E i \in 1..Len(gets) :
                      /\ gets' = RemoveAt(gets, i)
                      /\ entityCache' = [isNull |-> FALSE, records |-> gets[i].snap]
      ]_vars

\* a write has failed to its caller while a fetched list stays cached
C16_Witness ==
    /\ ret.error /\ ret.op \in {"create", "update", "delete"}
    /\ ~entityCache.isNull
    /\ entityCache.records # <<>>
    /\ writes = <<>>

\* C17 (read-your-writes on transactions): the first get() called after this
\* client's successful create, with no other write of this client since,
\* issues a fetch, and the fetched rows are those of the collection, the
\* created transaction among them.
C17_ReadYourWrites ==
    [][(kind = "transactions" /\ created # {} /\ writes = <<>>
           /\ written /\ ~written')
          => /\ Len(gets') = Len(gets) + 1
             /\ LET rows == gets'[Len(gets')].snap IN
                /\ rows = store
                /\ \A id \in created : \E j \in 1..Len(rows) : rows[j].id = id
      ]_vars

\* C15: hasPermission is false when no profile is cached; otherwise an admin
\* passes the admin, manager and viewer checks, a manager the manager and
\* viewer checks, and a viewer the viewer check only.
C15_PermissionOrder ==
    permitted.role # "none"
        => permitted.value =
              (/\ userData # NoProfile
               /\ <<userData.role, permitted.role>> \in
                     {<<"admin", "admin">>, <<"admin", "manager">>,
                      <<"admin", "viewer">>, <<"manager", "manager">>,
                      <<"manager", "viewer">>, <<"viewer", "viewer">>})

\* a manager passed the manager check
C15_Witness ==
    /\ userData # NoProfile /\ userData.role = "manager"
    /\ permitted = [role |-> "manager", value |-> TRUE]

\* C18 (calendar-date round trip): through every write and read of a date-only
\* field, in every timezone, the Date in the entity shows the field's calendar
\* date (year, month, day) and its wire text is that date as YYYY-MM-DD.
C18_DateRoundTrip ==
    /\ inMemory # <<>> => LocalCivil(inMemory[1]) = calendarDate
    /\ wire # <<>> => wire = DateColumn(calendarDate)

\* a list, point or derived read returned records of the cache entry
ServedFromCache ==
    /\ ret'.bit # ret.bit
    /\ ret'.op \in {"get", "getById", "active", "byProperty", "byType",
                    "upcoming", "byDateRange"}
    /\ ~ret'.remote /\ ~ret'.error

\* C21 (cache validity): every read that returns records of the cache entry
\* (get, getById, a derived read) finds the entry younger than CACHE_DURATION.
C21_CacheValidity ==
    [][ServedFromCache
          => /\ ~entityCache.isNull
             /\ now - cacheTimestamp < CACHE_DURATION]_vars

DerivedOps == {"active", "byProperty", "byType", "upcoming", "byDateRange"}

\* a derived read was called and returned at once, without a remote call
DerivedServed ==
    /\ ret'.bit # ret.bit
    /\ ret'.op \in DerivedOps
    /\ reads' = reads

\* a derived read was called and issued a remote query
DerivedIssued ==
    /\ Len(reads') = Len(reads) + 1
    /\ reads'[Len(reads')].op \in DerivedOps

\* C22 (derived-read policy): a derived read called on a warm cache (an entry
\* younger than CACHE_DURATION) issues no remote call and returns the cached
\* records that match its filter, in cached order; a derived read issues a
\* remote query only on a cold cache.
C22_DerivedReadPolicy ==
    [][/\ DerivedServed
             => /\ ~ret'.remote /\ ~ret'.error
                /\ ret'.value = SelectSeq(entityCache.records, Matches)
                /\ UNCHANGED <<entityCache, cacheTimestamp>>
       /\ DerivedIssued
             => ~(~entityCache.isNull /\ now - cacheTimestamp < CACHE_DURATION)
      ]_vars

\* getById was called and returned at once, without a remote call
ByIdServed ==
    /\ ret'.bit # ret.bit
    /\ ret'.op = "getById"
    /\ reads' = reads

\* getById(id) was called and issued its point lookup
ByIdIssued(id) ==
    /\ Len(reads') = Len(reads) + 1
    /\ reads' = Append(reads, reads'[Len(reads')])
    /\ reads'[Len(reads')].op = "getById"
    /\ reads'[Len(reads')].id = id

\* the point lookup i of a getById settled
ByIdReplied(i) ==
    /\ reads[i].op = "getById"
    /\ reads' = RemoveAt(reads, i)
    /\ ret'.bit # ret.bit

\* what getById does whenever it is called, given when the entry counts as
\* populated
ByIdPolicy(populated) ==
    /\ ByIdServed
          => /\ populated
             /\ ~ret'.remote /\ ~ret'.error
             /\ Len(ret'.value) = 1
             /\ \E j \in 1..Len(entityCache.records) :
                   /\ ret'.value[1] = entityCache.records[j]
                   /\ \A k \in 1..j - 1 :
                         entityCache.records[k].id # ret'.value[1].id
             /\ UNCHANGED <<entityCache, cacheTimestamp>>
    /\ \A id \in 0..MaxId :
          ByIdIssued(id)
             => /\ ~(populated
                     /\ \E j \in 1..Len(entityCache.records) :
                           entityCache.records[j].id = id)
                /\ \/ /\ reads'[Len(reads')].snap = <<>>
                      /\ \A j \in 1..Len(store) : store[j].id # id
                   \/ \E j \in 1..Len(store) :
                         /\ store[j].id = id
                         /\ reads'[Len(reads')].snap = <<store[j]>>
                /\ UNCHANGED <<entityCache, cacheTimestamp, ret, gets>>
    /\ \A i \in 1..Len(reads) :
          ByIdReplied(i)
             => /\ ret'.op = "getById"
                /\ IF ret'.error THEN ret'.value = <<>>
                   ELSE ret'.remote /\ ret'.value = reads[i].snap
                /\ UNCHANGED <<entityCache, cacheTimestamp, gets>>

C30_WarmColdEquivalence ==
    [][(DerivedIssued
           /\ kind \in {"properties", "reservations"}
           /\ reads'[Len(reads')].op \in {"active", "byProperty", "upcoming"})
          => RemoteResult(reads'[Len(reads')])
                = SelectSeq(Take(store, ListLimit[kind]), Matches)]_vars

\* C23 (concurrent first sign-in): when the last resolution in flight settles
\* at its insert for the cached subject and the row of that subject exists
\* (this insert or a concurrent one succeeded), the cached profile is the
\* profile of that row.
C23_ConcurrentFirstSignIn ==
    [][\A i \in 1..Len(resolves) :
          (/\ resolves[i].pc = "insert"
           /\ resolves' = RemoveAt(resolves, i)
           /\ resolves' = <<>>
           /\ currentUserIdRef = resolves[i].sub
           /\ single(users', resolves[i].sub) # NoRow)
          => /\ userData' = mapUserData(resolves[i].sub,
                                        single(users', resolves[i].sub))
             /\ userDataRef' = userData']_vars

\* C24 (stale visibility pull): a visibility pull that resolves with a session
\* older than the provider's (absent, or of another subject than the provider
\* now holds one for) after every emitted event was reconciled leaves session,
\* user, subject id and profile unchanged and starts no resolution.
C24_StalePullIgnored ==
    [][\A sess \in Sessions \cup {NoSession} :
          (VisDelivered(sess) /\ events = <<>> /\ sess.sub # provSession.sub)
          => /\ UNCHANGED <<session, currentUser, currentUserIdRef, userData,
                            userDataRef>>
             /\ UNCHANGED resolves]_vars

\* answers of the store on which fetchOrCreateUserData returns null
AbsentOutcomes == {"error", "abortValue", "abortThrown", "thrown", "insertError"}

\* the resolver got an answer from the store
Answered == resolved' # resolved

\* C25: when the resolver returns absent (the fetch failed, was cancelled or
\* threw, or the insert failed), the reconciliation settles in that step with
\* the cached profile absent, whatever profile was cached before; and a
\* reconciliation for another subject than the one whose profile is cached
\* never settles with that profile retained.
C25_AbsentReplacesStale ==
    [][/\ (Answered /\ resolved'.outcome \in AbsentOutcomes)
             => /\ userData' = NoProfile
                /\ userDataRef' = NoProfile
                /\ Len(resolves') = Len(resolves) - 1
       /\ (Answered /\ Len(resolves') < Len(resolves)
              /\ resolved'.before \in Subjects \ {resolved'.sub})
             => /\ userData.id = resolved'.before
                /\ (userData' = NoProfile \/ userData'.id = resolved'.sub)
      ]_vars

\* subject A's resolution failed at its fetch while B's profile was cached:
\* no profile is cached for the mirrored session of A
C25_Witness ==
    /\ resolved.sub = "A" /\ resolved.outcome = "error"
    /\ resolved.before = "B"
    /\ currentUserIdRef = "A" /\ session.sub = "A"
    /\ userData = NoProfile /\ userDataRef = NoProfile
    /\ resolves = <<>>
    /\ ~loading

\* number of resolutions of subject s whose insert is issued and unanswered
PendingInserts(rs, s) ==
    Cardinality({j \in 1..Len(rs) : rs[j].pc = "insert" /\ rs[j].sub = s})

\* number of inserts issued and unanswered, whatever the subject
AllPendingInserts(rs) ==
    Cardinality({j \in 1..Len(rs) : rs[j].pc = "insert"})

\* C26: outcomes of the profile resolver.  When the select finds the row of
\* the subject, the resolver returns that row mapped to a profile and issues
\* no insert; when the select reports no row, exactly one insert is issued,
\* for the subject, and nothing is returned yet; an insert that is executed
\* adds the row (id of the subject, role viewer) and that row is returned; an
\* insert that fails returns absent and adds nothing.
C26_ResolverOutcomes ==
    [][Answered =>
         LET s == resolved'.sub
             o == resolved'.outcome IN
         /\ o = "row" =>
              /\ single(users, s) # NoRow
              /\ users' = users
              /\ userData' = mapUserData(s, single(users, s))
              /\ Len(resolves') = Len(resolves) - 1
              /\ AllPendingInserts(resolves') = AllPendingInserts(resolves)
         /\ o = "notFound" =>
              /\ single(users, s) = NoRow
              /\ users' = users
              /\ userData' = userData
              /\ Len(resolves') = Len(resolves)
              /\ PendingInserts(resolves', s) = PendingInserts(resolves, s) + 1
              /\ AllPendingInserts(resolves') = AllPendingInserts(resolves) + 1
         /\ o = "inserted" =>
              /\ users' = Append(users, [id |-> s, role |-> "viewer"])
              /\ userData' = mapUserData(s, "viewer")
              /\ Len(resolves') = Len(resolves) - 1
              /\ PendingInserts(resolves', s) = PendingInserts(resolves, s) - 1
              /\ AllPendingInserts(resolves') = AllPendingInserts(resolves) - 1
         /\ o = "insertError" =>
              /\ users' = users
              /\ userData' = NoProfile
              /\ Len(resolves') = Len(resolves) - 1
              /\ AllPendingInserts(resolves') = AllPendingInserts(resolves) - 1
      ]_vars

\* subject A had no row: the insert was issued and executed, and the row
\* inserted (role viewer) is the cached profile
C26_Witness ==
    /\ resolved.sub = "A" /\ resolved.outcome = "inserted"
    /\ users = Append(InitialUsers, [id |-> "A", role |-> "viewer"])
    /\ userData = mapUserData("A", "viewer")
    /\ userDataRef = userData
    /\ session.sub = "A"

\* answers to the select other than a row or the no-rows condition
FetchFailures == {"error", "abortValue", "abortThrown", "thrown"}

\* C27: the resolver never fails to its caller.  A select answered with an
\* error other than no-rows, answered with an abort as an error value, or
\* throwing (an abort or anything else) makes the resolver return absent: the
\* caller runs on and commits the absent profile, no insert is issued and the
\* profile table is left as it was.
C27_ResolverNeverFails ==
    [][(Answered /\ resolved'.outcome \in FetchFailures) =>
         /\ Len(resolves') = Len(resolves) - 1
         /\ userData' = NoProfile
         /\ userDataRef' = NoProfile
         /\ users' = users
         /\ AllPendingInserts(resolves') = AllPendingInserts(resolves)
         /\ \A s \in Subjects :
               PendingInserts(resolves', s) = PendingInserts(resolves, s)
      ]_vars

\* the select for subject A, who has no row, threw an abort: the resolution
\* settled with no profile, no insert was issued and no row was created
C27_Witness ==
    /\ resolved.sub = "A" /\ resolved.outcome = "abortThrown"
    /\ session.sub = "A"
    /\ userData = NoProfile
    /\ users = InitialUsers
    /\ resolves = <<>>
    /\ ~loading

\* number of rows of the profile table with id s
RowCount(table, s) == Cardinality({j \in 1..Len(table) : table[j].id = s})

\* number of resolutions of subject s waiting for the answer to their select
PendingFetches(rs, s) ==
    Cardinality({j \in 1..Len(rs) : rs[j].pc = "fetch" /\ rs[j].sub = s})

\* C29: profile uniqueness and lazy creation.  The profile table never holds
\* two rows of one subject id; an insert is issued for a subject only by a
\* resolution of that subject whose select just reported no row; and a row
\* appears only as the answer to such an insert, with no row of that id before.
\* This holds with several resolutions of one subject in flight.
C29_UniqueLazyProfile ==
    /\ [](\A s \in Subjects : RowCount(users, s) <= 1)
    /\ [][(resolves' # resolves \/ users' # users) =>
          \A s \in Subjects :
            /\ PendingInserts(resolves', s) > PendingInserts(resolves, s)
                 => /\ single(users, s) = NoRow
                    /\ RowCount(users, s) = 0
                    /\ Len(resolves') = Len(resolves)
                    /\ PendingInserts(resolves', s) = PendingInserts(resolves, s) + 1
                    /\ PendingFetches(resolves', s) = PendingFetches(resolves, s) - 1
                    /\ users' = users
            /\ RowCount(users', s) # RowCount(users, s)
                 => /\ RowCount(users, s) = 0
                    /\ users' = Append(users, [id |-> s, role |-> "viewer"])
                    /\ PendingInserts(resolves', s) = PendingInserts(resolves, s) - 1
         ]_vars

\* two resolutions of subject A both found no row and issued their insert; one
\* insert was executed, the other is still unanswered, and A has one row
C29_Witness ==
    /\ RowCount(users, "A") = 1
    /\ selectSingle("A") = "viewer"
    /\ PendingInserts(resolves, "A") >= 1
    /\ userData = mapUserData("A", "viewer")

\* ------------------------------------------------------------------- Spec

UtilIdle ==
    /\ permitted = [role |-> "none", value |-> FALSE]
    /\ tz = 0
    /\ dateField = "reservation"
    /\ calendarDate = EpochDate
    /\ wire = <<>>
    /\ inMemory = <<>>


AuthNext ==
    \/ \E s \in Subjects : SignIn(s)
    \/ TokenRefresh
    \/ DuplicateSignedIn
    \/ SignOut
    \/ DeliverEvent
    \/ \E i \in 1..MaxPulls + 1 : InitialSession(i)
    \/ \E i \in 1..MaxPulls + 1 : InitialSessionFail(i)
    \/ \E ok \in BOOLEAN : handleVisibilityChange(ok)
    \/ \E i \in 1..MaxPulls + 1 : VisibilitySession(i)
    \/ \E i \in 1..MaxPulls + 1 : VisibilitySessionFail(i)
    \/ \E i \in 1..MaxInflight, o \in FetchOutcomes : FetchReply(i, o)
    \/ \E i \in 1..MaxInflight, served \in BOOLEAN : InsertReply(i, served)
    \/ \E s \in Subjects, e \in {Resolved} \cup ProviderMessages : login(s, e)
    \/ \E ok \in BOOLEAN : logoutCall(ok)
    \/ logout

\* The session manager; the entity cache is at rest.
Init == AuthInit /\ CacheIdle /\ UtilIdle

Next == AuthNext

Spec == Init /\ [][Next]_vars

\* The entity cache of one service module; the session manager is at rest.
CacheSpecInit == CacheInit /\ AuthIdle /\ UtilIdle

CacheSpecNext == CacheNext

CacheSpec == CacheSpecInit /\ [][CacheSpecNext]_vars

\* The role check and the conversions of the date-only fields.
UtilSpecInit == UtilInit /\ ProfileCached /\ CacheIdle

UtilSpecNext == UtilNext

UtilSpec == UtilSpecInit /\ [][UtilSpecNext]_vars

\* The session manager with the answers of the store to the profile resolver
\* recorded; sign-ins and sign-outs come from the provider, login() and
\* logout() are not called.
ResolverSpecInit == AuthInit /\ CacheIdle /\ UtilIdle

ResolverSpecNext ==
    \/ \E s \in Subjects : SignIn(s)
    \/ DuplicateSignedIn
    \/ SignOut
    \/ DeliverEvent
    \/ \E i \in 1..MaxPulls + 1 : InitialSession(i)
    \/ \E i \in 1..MaxPulls + 1 : InitialSessionFail(i)
    \/ TokenRefresh
    \/ \E ok \in BOOLEAN : handleVisibilityChange(ok)
    \/ \E i \in 1..MaxPulls + 1 : VisibilitySession(i)
    \/ \E i \in 1..MaxPulls + 1 : VisibilitySessionFail(i)
    \/ \E i \in 1..MaxInflight, o \in FetchOutcomes : ObservedFetchReply(i, o)
    \/ \E i \in 1..MaxInflight, served \in BOOLEAN : ObservedInsertReply(i, served)

ResolverSpec == ResolverSpecInit /\ [][ResolverSpecNext]_vars

\* The reads of one service module (list, point lookup, derived reads) on a
\* collection that grows by creates; the session manager is at rest.
ReadSpecInit == CacheInit /\ AuthIdle /\ UtilIdle

ReadSpecNext ==
    \/ \E f \in BOOLEAN : getEntities(f)
    \/ \E i \in 1..MaxGets : getEntitiesFetched(i)
    \/ \E i \in 1..MaxGets : getEntitiesFailed(i)
    \/ Invalidate
    \/ \E m \in BOOLEAN, pos \in 1..MaxStore, ok \in BOOLEAN : createEntity(m, pos, ok)
    \/ \E i \in 1..MaxWrites : WriteReturn(i)
    \/ Tick
    \/ ReadNext

ReadSpec == ReadSpecInit /\ [][ReadSpecNext]_vars

====
